---- MODULE Spec2Model ----
(***************************************************************************)
(* Readme-Generator (src/src/main.rs): the modal field-editing state       *)
(* machine of run_app, the two document templates (App::generate_preview   *)
(* and generate_readme) and the part of main that runs after the event     *)
(* loop.                                                                   *)
(*                                                                         *)
(* A text (a Rust String) is a sequence of one-character strings.  A       *)
(* document is the sequence obtained by format!: the literal pieces of the *)
(* template, each one element, with the texts of the arguments in between. *)
(* The non-ASCII characters of the templates (the emoji of the headings,   *)
(* the middle dot) are left out of the literal pieces; a code fence is     *)
(* written ~~~.                                                            *)
(***************************************************************************)
EXTENDS Integers, Sequences, FiniteSets, TLC

\* ------------------------------------------------------------------ bounds
\* Longest edit buffer the modelled user types.
MaxLen == 2
\* Longest text of the field that SpecRender varies.
MaxText == 3

\* Printable characters the modelled user types in the editor.
Chars == {"a", "q"}
Plain == <<"a">>
\* Characters of the texts SpecRender hands to the templates.
RenderChars == {"a", "B", " ", ";"}

\* ------------------------------------------------------------ program data
\* App::default: fields.len()
NumFields == 13
\* App::default: license_options
license_options ==
  <<"MIT License", "Apache License 2.0", "GNU GPL v3", "BSD 3-Clause", "ISC License">>

FieldIdx == 0 .. (NumFields - 1)
EmptyText == << >>

VARIABLES
  input,            \* App.input: the edit buffer
  input_mode,       \* App.input_mode: "Navigation" | "Editing"
  fields,           \* App.fields[i].value, i in FieldIdx
  current_field,    \* App.current_field
  selected_license, \* App.selected_license (0-based index into license_options)
  pc,               \* where main is: "loop" | "teardown" | "done"
  res,              \* run_app's result: "none" | "Ok(true)" | "Ok(false)" | "Err"
  ret,              \* main's outcome: "none" | "Ok" | "Err" | "panic"
  readme,           \* content of README.md as written by this run (<< >>: not written)
  generated,        \* number of calls of generate_readme
  writes,           \* number of completed fs::write calls
  preview,          \* what the latest direct call of generate_preview returned (SpecRender)
  last,             \* bookkeeping: the latest key event that moved the cursor or ended an edit
  sess              \* bookkeeping: the open edit session

app == <<input, input_mode, fields, current_field, selected_license>>
vars == <<input, input_mode, fields, current_field, selected_license,
          pc, res, ret, readme, generated, writes, preview, last, sess>>

\* all_fields_filled with any in place of all
any_field_filled == \E i \in FieldIdx : fields[i] # EmptyText

\* App::all_fields_filled
all_fields_filled == \A i \in FieldIdx : fields[i] # EmptyText

\* ------------------------------------------------------- text operations
\* char::is_whitespace, for the characters of this model
IsSpace(c) == c = " "

\* str::split(';'): the pieces between the semicolons; one piece (the whole
\* text, empty for the empty text) when there is no semicolon.
RECURSIVE split(_)
split(s) ==
  IF \A k \in 1 .. Len(s) : s[k] # ";"
    THEN << s >>
    ELSE LET k == CHOOSE k \in 1 .. Len(s) :
                    s[k] = ";" /\ \A m \in 1 .. (k - 1) : s[m] # ";"
         IN  << SubSeq(s, 1, k - 1) >> \o split(SubSeq(s, k + 1, Len(s)))

\* str::trim: without the leading and the trailing whitespace
RECURSIVE trim_start(_)
trim_start(s) ==
  IF s # << >> /\ IsSpace(s[1]) THEN trim_start(SubSeq(s, 2, Len(s))) ELSE s
RECURSIVE trim_end(_)
trim_end(s) ==
  IF s # << >> /\ IsSpace(s[Len(s)]) THEN trim_end(SubSeq(s, 1, Len(s) - 1)) ELSE s
trim(s) == trim_end(trim_start(s))

\* str::to_lowercase, for the characters of this model
LowerChar(c) == CASE c = "A" -> "a" [] c = "B" -> "b" [] c = "Q" -> "q" [] OTHER -> c
to_lowercase(s) == [k \in 1 .. Len(s) |-> LowerChar(s[k])]

\* The decimal digits format! writes for a usize.
Digit(d) == << "0", "1", "2", "3", "4", "5", "6", "7", "8", "9" >>[d + 1]
RECURSIVE Decimal(_)
Decimal(n) == IF n < 10 THEN << Digit(n) >> ELSE Decimal(n \div 10) \o << Digit(n % 10) >>

\* [T]::join(sep) over a sequence of texts
RECURSIVE join(_, _)
join(items, sep) ==
  IF items = << >> THEN << >>
  ELSE IF Len(items) = 1 THEN items[1]
  ELSE items[1] \o sep \o join(Tail(items), sep)

\* format!: the literal pieces lits[1..n+1] around the arguments args[1..n]
RECURSIVE format(_, _)
format(lits, args) ==
  IF args = << >> THEN lits[1]
  ELSE lits[1] \o args[1] \o format(Tail(lits), Tail(args))

\* Iterator::filter over a sequence
RECURSIVE filter_nonempty(_)
filter_nonempty(items) ==
  IF items = << >> THEN << >>
  ELSE (IF items[1] # << >> THEN << items[1] >> ELSE << >>) \o filter_nonempty(Tail(items))

\* --------------------------------------------------------- the templates
NL == << "\n" >>
NL2 == << "\n\n" >>
BadgeMid == "?style=flat-square)](https://github.com/"
\* Badge with the repository name in the image address only
Badge_OneName(open, close, repo_name) ==
  << open >> \o repo_name \o << BadgeMid >> \o << close >>

\* One repository badge: format!("[![..](..{repo_name}?style=flat-square)](https://github.com/{repo_name}/..)")
Badge(open, close, repo_name) ==
  << open >> \o repo_name \o << BadgeMid >> \o repo_name \o << close >>
StarsBadge(r) == Badge("[![Stars](https://img.shields.io/github/stars/", "/stargazers)", r)
ForksBadge(r) == Badge("[![Forks](https://img.shields.io/github/forks/", "/network/members)", r)
IssuesBadge(r) == Badge("[![Issues](https://img.shields.io/github/issues/", "/issues)", r)
LicenseBadge(r) == Badge("[![License](https://img.shields.io/github/license/", "/blob/main/LICENSE)", r)

\* The literal pieces the two templates share, in the order of the text.
LitTitle == << "<div align=\"center\">\n\n# " >>
LitDocs == << "[Documentation](#" >>
LitBug == << ") . [Report Bug](https://github.com/" >>
LitFeature == << "/issues) . [Request Feature](https://github.com/" >>
LitIssues == << "/issues)" >>
LitAbout ==
  << "</div>\n\n## Table of Contents\n- [About](#about)\n- [Features](#features)\n- [Built With](#built-with)\n- [Getting Started](#getting-started)\n  - [Prerequisites](#prerequisites)\n  - [Installation](#installation)\n- [Usage](#usage)\n- [API Documentation](#api-documentation)\n- [Testing](#testing)\n- [Contributing](#contributing)\n- [License](#license)\n- [Contact](#contact)\n\n## About\n" >>
LitFeatures == << "\n\n## Features\n" >>
LitBuiltWith == << "\n\n## Built With\n" >>
LitPrerequisites == << "\n\n## Getting Started\n\n### Prerequisites\n" >>
LitInstallation == << "\n\n### Installation\n" >>
LitUsage == << "\n\n## Usage\n~~~bash\n" >>
LitApi == << "\n~~~\n\n## API Documentation\n~~~\n" >>
LitTesting == << "\n~~~\n\n## Testing\n" >>
LitContributing == << "\n\n## Contributing\n" >>
LitLicense == << "\n\n## License\nThis project is licensed under the " >>
LitAuthors == << " - see the [LICENSE](LICENSE) file for details.\n\n## Authors\n" >>
LitEnd == << "\n\n---\n<div align=\"center\">\nMade with  by contributors\n</div>" >>

\* The tail both templates share after their header: the literal pieces
\* from "</div>" on, around the 11 arguments of the main content.
ContentLits ==
  << LitAbout, LitFeatures, LitBuiltWith, LitPrerequisites, LitInstallation, LitUsage,
     LitApi, LitTesting, LitContributing, LitLicense, LitAuthors, LitEnd >>

\* The "- item" list of generate_preview (features, technologies,
\* prerequisites, authors): the placeholder when the first piece is empty.
bulleted(items, placeholder) ==
  IF items = << >> \/ items[1] = << >>
    THEN << placeholder >>
    ELSE join([k \in 1 .. Len(items) |-> << "-", " " >> \o trim(items[k])], NL)

\* The "n. step" list of generate_preview (installation, tests).
numbered(items, placeholder) ==
  IF items = << >> \/ items[1] = << >>
    THEN << placeholder >>
    ELSE join([k \in 1 .. Len(items) |-> Decimal(k) \o << ".", " " >> \o trim(items[k])], NL)

\* One technology badge of generate_preview.
TechBadge(t) ==
  LET tech == to_lowercase(trim(t)) IN
    << "![" >> \o tech \o << "](https://img.shields.io/badge/-" >> \o tech
      \o << "-informational?style=flat-square&logo=" >> \o tech \o << "&logoColor=white)" >>

\* The arguments of the format! of generate_preview, in order.
preview_args(fs, lic) ==
  LET repo_name == fs[0]
      technologies == split(fs[5])
      badges == IF repo_name # << >>
                  THEN << StarsBadge(repo_name), ForksBadge(repo_name),
                          IssuesBadge(repo_name), LicenseBadge(repo_name) >>
                  ELSE << >>
      kept == filter_nonempty(technologies)
      tech_badges == [k \in 1 .. Len(kept) |-> TechBadge(kept[k])]
  IN  << fs[1], fs[2], join(badges, NL), repo_name, repo_name, repo_name,
         IF tech_badges # << >> THEN join(tech_badges, << " " >>)
                                ELSE << "<Technology badges>" >>,
         fs[3],
         bulleted(split(fs[4]), "- <Features of your project>"),
         bulleted(technologies, "- <Technologies used>"),
         bulleted(split(fs[6]), "- <Prerequisites>"),
         numbered(split(fs[7]), "1. <Installation steps>"),
         fs[8], fs[9],
         numbered(split(fs[11]), "1. <Test instructions>"),
         fs[10],
         << license_options[lic + 1] >>,
         bulleted(split(fs[12]), "- <Project authors>") >>

PreviewLits ==
  << LitTitle, NL2, NL2, NL2 \o LitDocs, LitBug, LitFeature, LitIssues \o NL2 >>
    \o ContentLits

\* App::generate_preview
generate_preview(fs, lic) == format(PreviewLits, preview_args(fs, lic))

\* The arguments of the format! of generate_readme, in order.
readme_args(fs, lic) ==
  << fs[1], fs[2],
     fs[0], fs[0], fs[0], fs[0], fs[0], fs[0], fs[0], fs[0], fs[0], fs[0], fs[0],
     fs[3], fs[4], fs[5], fs[6], fs[7], fs[8], fs[9], fs[11], fs[10],
     << license_options[lic + 1] >>,
     fs[12] >>

ReadmeLits ==
  << LitTitle, NL2,
     NL2 \o << "[![Stars](https://img.shields.io/github/stars/" >>, << BadgeMid >>,
     << "/stargazers)" >> \o NL \o << "[![Forks](https://img.shields.io/github/forks/" >>,
     << BadgeMid >>,
     << "/network/members)" >> \o NL \o << "[![Issues](https://img.shields.io/github/issues/" >>,
     << BadgeMid >>,
     << "/issues)" >> \o NL \o << "[![License](https://img.shields.io/github/license/" >>,
     << BadgeMid >>,
     << "/blob/main/LICENSE)" >> \o NL2 \o LitDocs, LitBug, LitFeature,
     LitIssues \o NL2 \o LitAbout >>
    \o Tail(ContentLits)

\* The markdown_content of generate_readme
readme_content(fs, lic) == format(ReadmeLits, readme_args(fs, lic))

\* ui: the right-hand panel (title and text of the Paragraph)
ui_right_panel(fs, cur, lic) ==
  IF \A i \in FieldIdx : fs[i] # << >>
    THEN [title |-> "README Preview", text |-> generate_preview(fs, lic)]
    ELSE [title |-> "Description", text |-> << "description", cur >>]

\* Bookkeeping of an edit session (not program state): the active field and
\* the field values when it was entered (field, snap).  For the sessions that
\* begin on a form whose other fields are all empty (tracked), also whether
\* the session began with Enter in Navigation mode rather than by
\* auto-advance (nav), and the characters typed since, as long as only
\* printable characters were typed (typed, clean).
NoSess == [open |-> FALSE, field |-> 0, snap |-> << >>, tracked |-> FALSE,
           nav |-> FALSE, typed |-> EmptyText, clean |-> FALSE]
NewSess(i, fs, n) ==
  LET t == \A j \in FieldIdx \ {i} : fs[j] = EmptyText IN
    [open |-> TRUE, field |-> i, snap |-> fs, tracked |-> t,
     nav |-> t /\ n, typed |-> EmptyText, clean |-> t]
\* The latest key event, when it moved the cursor, ended an edit session or
\* ended the loop: its key, the index it found and the session it ended; the
\* key is "none" after any other event.
Event(k, from, ended) == [key |-> k, from |-> from, ended |-> ended]

\* App::default and the entry of run_app
Init ==
  /\ input = EmptyText
  /\ input_mode = "Navigation"
  /\ fields = [i \in FieldIdx |-> EmptyText]
  /\ current_field = 0
  /\ selected_license = 0
  /\ pc = "loop"
  /\ res = "none"
  /\ ret = "none"
  /\ readme = << >>
  /\ generated = 0
  /\ writes = 0
  /\ preview = << >>
  /\ last = Event("none", 0, NoSess)
  /\ sess = NoSess

InLoop(mode) == pc = "loop" /\ input_mode = mode
Rest == UNCHANGED <<res, ret, readme, generated, writes, preview>>

\* What the modelled user types: any text over Chars up to MaxLen into a form
\* whose other fields are all empty, and the one-letter text "a" into a form
\* that holds nothing but "a".  (The key handler itself accepts any character.)
CanType(c) ==
  /\ Len(input) < MaxLen
  /\ \/ \A j \in FieldIdx \ {current_field} : fields[j] = EmptyText
     \/ /\ \A j \in FieldIdx : fields[j] \in {EmptyText, Plain}
        /\ Append(input, c) = Plain

\* ---------------------------------------------------- Navigation mode keys
NavQuit ==
  /\ InLoop("Navigation")
  /\ res' = "Ok(false)"
  /\ pc' = "teardown"
  /\ last' = Event("q", 0, NoSess)
  /\ UNCHANGED <<app, ret, readme, generated, writes, preview, sess>>

\* NavDown without the guard on the last index
NavDown_Unguarded ==
  /\ InLoop("Navigation")
  /\ current_field' = current_field + 1
  /\ last' = Event("Down", current_field, NoSess)
  /\ sess' = NoSess
  /\ UNCHANGED <<input, input_mode, fields, selected_license, pc>>
  /\ Rest

NavDown ==
  /\ InLoop("Navigation")
  /\ current_field' = IF current_field < NumFields - 1 THEN current_field + 1
                                                       ELSE current_field
  /\ last' = Event("Down", current_field, NoSess)
  /\ sess' = NoSess
  /\ UNCHANGED <<input, input_mode, fields, selected_license, pc>>
  /\ Rest

\* NavUp wrapping from the first field to the last
NavUp_Wraps ==
  /\ InLoop("Navigation")
  /\ current_field' = IF current_field > 0 THEN current_field - 1 ELSE NumFields - 1
  /\ last' = Event("Up", current_field, NoSess)
  /\ sess' = NoSess
  /\ UNCHANGED <<input, input_mode, fields, selected_license, pc>>
  /\ Rest

NavUp ==
  /\ InLoop("Navigation")
  /\ current_field' = IF current_field > 0 THEN current_field - 1 ELSE current_field
  /\ last' = Event("Up", current_field, NoSess)
  /\ sess' = NoSess
  /\ UNCHANGED <<input, input_mode, fields, selected_license, pc>>
  /\ Rest

\* NavEnter starting from an empty buffer instead of the field's value
NavEnter_NoPrefill ==
  /\ InLoop("Navigation")
  /\ input_mode' = "Editing"
  /\ input' = EmptyText
  /\ last' = Event("none", 0, NoSess)
  /\ sess' = NewSess(current_field, fields, TRUE)
  /\ UNCHANGED <<fields, current_field, selected_license, pc>>
  /\ Rest

NavEnter ==
  /\ InLoop("Navigation")
  /\ input_mode' = "Editing"
  /\ input' = fields[current_field]
  /\ last' = Event("none", 0, NoSess)
  /\ sess' = NewSess(current_field, fields, TRUE)
  /\ UNCHANGED <<fields, current_field, selected_license, pc>>
  /\ Rest

\* NavTab without the all_fields_filled check
NavTab_Unchecked ==
  /\ InLoop("Navigation")
  /\ res' = "Ok(true)"
  /\ pc' = "teardown"
  /\ last' = Event("none", 0, NoSess)
  /\ sess' = NoSess
  /\ UNCHANGED <<app, ret, readme, generated, writes, preview>>

\* NavTab selecting the next license while the form is incomplete
NavTab_CyclesLicense ==
  /\ InLoop("Navigation")
  /\ IF all_fields_filled
       THEN res' = "Ok(true)" /\ pc' = "teardown" /\ UNCHANGED selected_license
       ELSE /\ selected_license' = (selected_license + 1) % Len(license_options)
            /\ UNCHANGED <<res, pc>>
  /\ last' = Event("none", 0, NoSess)
  /\ sess' = NoSess
  /\ UNCHANGED <<input, input_mode, fields, current_field,
                 ret, readme, generated, writes, preview>>

NavTab ==
  /\ InLoop("Navigation")
  /\ IF all_fields_filled
       THEN res' = "Ok(true)" /\ pc' = "teardown"
       ELSE UNCHANGED <<res, pc>>
  /\ last' = Event("none", 0, NoSess)
  /\ sess' = NoSess
  /\ UNCHANGED <<app, ret, readme, generated, writes, preview>>

NavOther ==
  /\ InLoop("Navigation")
  /\ last' = Event("none", 0, NoSess)
  /\ sess' = NoSess
  /\ UNCHANGED <<app, pc>>
  /\ Rest

\* ------------------------------------------------------- Editing mode keys
\* EditEnter returning to Navigation after every commit, without advancing
EditEnter_LeavesEditing ==
  /\ InLoop("Editing")
  /\ fields' = [fields EXCEPT ![current_field] = input]
  /\ input' = EmptyText
  /\ input_mode' = "Navigation"
  /\ last' = Event("Enter", current_field, sess)
  /\ sess' = NoSess
  /\ UNCHANGED <<current_field, selected_license, pc>>
  /\ Rest

\* EditEnter advancing with the drained buffer instead of the next field's value
EditEnter_AdvanceNoPrefill ==
  /\ InLoop("Editing")
  /\ LET committed == [fields EXCEPT ![current_field] = input] IN
       /\ fields' = committed
       /\ input' = EmptyText
       /\ IF current_field < NumFields - 1
            THEN /\ current_field' = current_field + 1
                 /\ input_mode' = input_mode
                 /\ sess' = NewSess(current_field + 1, committed, FALSE)
            ELSE /\ current_field' = current_field
                 /\ input_mode' = "Navigation"
                 /\ sess' = NoSess
  /\ last' = Event("Enter", current_field, sess)
  /\ UNCHANGED <<selected_license, pc>>
  /\ Rest

\* EditEnter with the guard off by one: it advances only before the last but one
EditEnter_OffByOne ==
  /\ InLoop("Editing")
  /\ LET committed == [fields EXCEPT ![current_field] = input] IN
       /\ fields' = committed
       /\ IF current_field < NumFields - 2
            THEN /\ current_field' = current_field + 1
                 /\ input' = committed[current_field + 1]
                 /\ input_mode' = input_mode
                 /\ sess' = NewSess(current_field + 1, committed, FALSE)
            ELSE /\ current_field' = current_field
                 /\ input' = EmptyText
                 /\ input_mode' = "Navigation"
                 /\ sess' = NoSess
  /\ last' = Event("Enter", current_field, sess)
  /\ UNCHANGED <<selected_license, pc>>
  /\ Rest

EditEnter ==
  /\ InLoop("Editing")
  /\ LET committed == [fields EXCEPT ![current_field] = input] IN
       /\ fields' = committed
       /\ IF current_field < NumFields - 1
            THEN /\ current_field' = current_field + 1
                 /\ input' = committed[current_field + 1]
                 /\ input_mode' = input_mode
                 /\ sess' = NewSess(current_field + 1, committed, FALSE)
            ELSE /\ current_field' = current_field
                 /\ input' = EmptyText
                 /\ input_mode' = "Navigation"
                 /\ sess' = NoSess
  /\ last' = Event("Enter", current_field, sess)
  /\ UNCHANGED <<selected_license, pc>>
  /\ Rest

\* EditChar treating q as the quit key, as Navigation mode does
EditChar_QuitsOnQ ==
  /\ InLoop("Editing")
  /\ \E c \in Chars :
       /\ CanType(c)
       /\ IF c = "q"
            THEN /\ res' = "Ok(false)"
                 /\ pc' = "teardown"
                 /\ UNCHANGED <<input, sess>>
            ELSE /\ input' = Append(input, c)
                 /\ sess' = IF sess.clean THEN [sess EXCEPT !.typed = Append(@, c)] ELSE sess
                 /\ UNCHANGED <<res, pc>>
  /\ last' = Event("none", 0, NoSess)
  /\ UNCHANGED <<input_mode, fields, current_field, selected_license>>
  /\ UNCHANGED <<ret, readme, generated, writes, preview>>

EditChar ==
  /\ InLoop("Editing")
  /\ \E c \in Chars :
       /\ CanType(c)
       /\ input' = Append(input, c)
       /\ sess' = IF sess.clean THEN [sess EXCEPT !.typed = Append(@, c)] ELSE sess
  /\ last' = Event("none", 0, NoSess)
  /\ UNCHANGED <<input_mode, fields, current_field, selected_license, pc>>
  /\ Rest

\* EditBackspace popping from the field's value instead of the buffer
EditBackspace_PopsField ==
  /\ InLoop("Editing")
  /\ fields' = [fields EXCEPT ![current_field] =
                  IF @ = EmptyText THEN @ ELSE SubSeq(@, 1, Len(@) - 1)]
  /\ sess' = [sess EXCEPT !.clean = FALSE, !.typed = EmptyText]
  /\ last' = Event("none", 0, NoSess)
  /\ UNCHANGED <<input, input_mode, current_field, selected_license, pc>>
  /\ Rest

EditBackspace ==
  /\ InLoop("Editing")
  /\ input' = IF input = EmptyText THEN input ELSE SubSeq(input, 1, Len(input) - 1)
  /\ sess' = [sess EXCEPT !.clean = FALSE, !.typed = EmptyText]
  /\ last' = Event("none", 0, NoSess)
  /\ UNCHANGED <<input_mode, fields, current_field, selected_license, pc>>
  /\ Rest

\* EditEsc storing the buffer in the field before clearing it
EditEsc_Commits ==
  /\ InLoop("Editing")
  /\ fields' = [fields EXCEPT ![current_field] = input]
  /\ input' = EmptyText
  /\ input_mode' = "Navigation"
  /\ last' = Event("Esc", current_field, sess)
  /\ sess' = NoSess
  /\ UNCHANGED <<current_field, selected_license, pc>>
  /\ Rest

\* EditEsc leaving the buffer as it is
EditEsc_KeepsBuffer ==
  /\ InLoop("Editing")
  /\ input_mode' = "Navigation"
  /\ last' = Event("Esc", current_field, sess)
  /\ sess' = NoSess
  /\ UNCHANGED <<input, fields, current_field, selected_license, pc>>
  /\ Rest

EditEsc ==
  /\ InLoop("Editing")
  /\ input' = EmptyText
  /\ input_mode' = "Navigation"
  /\ last' = Event("Esc", current_field, sess)
  /\ sess' = NoSess
  /\ UNCHANGED <<fields, current_field, selected_license, pc>>
  /\ Rest

EditOther ==
  /\ InLoop("Editing")
  /\ last' = Event("none", 0, NoSess)
  /\ UNCHANGED <<app, pc, sess>>
  /\ Rest

\* event::read returned an event that is no key event (mouse, resize)
OtherEvent ==
  /\ pc = "loop"
  /\ last' = Event("none", 0, NoSess)
  /\ UNCHANGED <<app, pc, sess>>
  /\ Rest

\* ------------------------------------------------- failures of the loop
\* terminal.draw(..)? returns the error
DrawFails ==
  /\ pc = "loop"
  /\ res' = "Err"
  /\ pc' = "teardown"
  /\ last' = Event("none", 0, NoSess)
  /\ sess' = NoSess
  /\ UNCHANGED <<app, ret, readme, generated, writes, preview>>

\* event::read()? returns the error
ReadFails ==
  /\ pc = "loop"
  /\ res' = "Err"
  /\ pc' = "teardown"
  /\ last' = Event("none", 0, NoSess)
  /\ sess' = NoSess
  /\ UNCHANGED <<app, ret, readme, generated, writes, preview>>

\* ------------------------------------------------ main, after run_app
\* disable_raw_mode()?, execute!(..)? or show_cursor()? returns the error
TeardownFails ==
  /\ pc = "teardown"
  /\ ret' = "Err"
  /\ pc' = "done"
  /\ UNCHANGED <<app, res, readme, generated, writes, preview, last, sess>>

\* The teardown succeeds and res is not Ok(true): main returns Ok(())
FinishWithoutReadme ==
  /\ pc = "teardown"
  /\ res # "Ok(true)"
  /\ ret' = "Ok"
  /\ pc' = "done"
  /\ UNCHANGED <<app, res, readme, generated, writes, preview, last, sess>>

\* GenerateReadme without the test of res
GenerateReadme_AnyResult ==
  /\ pc = "teardown"
  /\ generated' = generated + 1
  /\ readme' = readme_content(fields, selected_license)
  /\ writes' = writes + 1
  /\ ret' = "Ok"
  /\ pc' = "done"
  /\ UNCHANGED <<app, res, preview, last, sess>>

\* The teardown succeeds and res is Ok(true): generate_readme writes README.md
GenerateReadme ==
  /\ pc = "teardown"
  /\ res = "Ok(true)"
  /\ generated' = generated + 1
  /\ readme' = readme_content(fields, selected_license)
  /\ writes' = writes + 1
  /\ ret' = "Ok"
  /\ pc' = "done"
  /\ UNCHANGED <<app, res, preview, last, sess>>

\* The teardown succeeds, res is Ok(true) and fs::write fails: expect panics
WriteFails ==
  /\ pc = "teardown"
  /\ res = "Ok(true)"
  /\ generated' = generated + 1
  /\ ret' = "panic"
  /\ pc' = "done"
  /\ UNCHANGED <<app, res, readme, writes, preview, last, sess>>

Next ==
  \/ NavQuit \/ NavDown \/ NavUp \/ NavEnter \/ NavTab \/ NavOther
  \/ EditEnter \/ EditChar \/ EditBackspace \/ EditEsc \/ EditOther
  \/ OtherEvent \/ DrawFails \/ ReadFails
  \/ TeardownFails \/ FinishWithoutReadme \/ GenerateReadme \/ WriteFails

Spec == Init /\ [][Next]_vars

\* ------------------------------------------- the templates, called directly
\* The texts over RenderChars up to MaxText characters, and the example of
\* the specification, "a; b ;c".
Example == << "a", ";", " ", "b", " ", ";", "c" >>
TextsUpTo(n) == UNION {[1 .. k -> RenderChars] : k \in 0 .. n}
Texts == TextsUpTo(MaxText) \cup {Example}

\* Form states handed to the templates: one field holds any text of Texts,
\* the others are all empty or all "a"; the license index is the one
\* App::default sets, which no key changes.
InitRender ==
  /\ \E f \in FieldIdx, t \in Texts, g \in {EmptyText, Plain} :
       fields = [i \in FieldIdx |-> IF i = f THEN t ELSE g]
  /\ input = EmptyText
  /\ input_mode = "Navigation"
  /\ current_field = 0
  /\ selected_license = 0
  /\ pc = "call"
  /\ res = "none"
  /\ ret = "none"
  /\ readme = << >>
  /\ generated = 0
  /\ writes = 0
  /\ preview = << >>
  /\ last = Event("none", 0, NoSess)
  /\ sess = NoSess

\* CallPreview draining the field values it renders
CallPreview_Consumes ==
  /\ pc = "call"
  /\ preview = << >>
  /\ preview' = generate_preview(fields, selected_license)
  /\ fields' = [i \in FieldIdx |-> EmptyText]
  /\ UNCHANGED <<input, input_mode, current_field, selected_license,
                 pc, res, ret, readme, generated, writes, last, sess>>

CallPreview ==
  /\ pc = "call"
  /\ preview = << >>
  /\ preview' = generate_preview(fields, selected_license)
  /\ UNCHANGED <<app, pc, res, ret, readme, generated, writes, last, sess>>

CallReadme ==
  /\ pc = "call"
  /\ readme = << >>
  /\ generated' = generated + 1
  /\ readme' = readme_content(fields, selected_license)
  /\ writes' = writes + 1
  /\ UNCHANGED <<app, pc, res, ret, preview, last, sess>>

NextRender == CallPreview \/ CallReadme

SpecRender == InitRender /\ [][NextRender]_vars

\* ------------------------------------------- the editor used as a wizard
\* Enter on the untouched form: the first confirm of the wizard.
WizardStart ==
  /\ fields = [i \in FieldIdx |-> EmptyText]
  /\ current_field = 0
  /\ last.key = "none"
  /\ NavEnter

\* Only confirms and printable characters after the first confirm.
NextWizard == WizardStart \/ EditEnter \/ EditChar

SpecWizard == Init /\ [][NextWizard]_vars

\* ------------------------------------------------------------- the claims
EveryFieldNonEmpty == \A i \in FieldIdx : fields[i] # EmptyText
LastIndex == NumFields - 1
\* The session the latest Enter of Editing mode committed, when it began in
\* Navigation mode and only printable characters were typed in it.
CommittedTyped ==
  /\ last.key = "Enter"
  /\ last.ended.open /\ last.ended.tracked /\ last.ended.nav /\ last.ended.clean
\* The index after a commit on field i.
AfterCommit(i) == IF i = LastIndex THEN i ELSE i + 1

\* C1: in every state reachable by key events, 0 <= current_field < N, the
\* number of fields.
IndexInRange == current_field \in 0 .. (NumFields - 1)
\* C1: Enter in Editing mode was pressed on the last field and the index stayed.
CommittedAtLastField ==
  last.key = "Enter" /\ last.from = LastIndex /\ current_field = LastIndex

\* C2, as claimed: after Enter in Navigation on field i, typing s and Enter,
\* Field[i].value is s exactly and the index is i+1 unless i = N-1.
TypedIsTheValue ==
  CommittedTyped =>
    /\ fields[last.from] = last.ended.typed
    /\ current_field = AfterCommit(last.from)
\* C2, amended: Field[i].value is the prior value followed by s (s exactly
\* when the prior value is empty), and the index is i+1 unless i = N-1.
TypedIsAppendedToPrior ==
  CommittedTyped =>
    /\ fields[last.from] = last.ended.snap[last.from] \o last.ended.typed
    /\ current_field = AfterCommit(last.from)
\* C2: a field that held a value was entered from Navigation, text was typed
\* and committed.
RetypedAFilledField ==
  /\ CommittedTyped
  /\ last.ended.snap[last.from] # EmptyText
  /\ last.ended.typed # EmptyText

\* C3: the document written on completion is what generate_preview returns on
\* the same field values and license.
WrittenIsThePreview ==
  writes > 0 => readme = generate_preview(fields, selected_license)

\* C4: Tab in Navigation mode ends the loop with Ok(true) if and only if every
\* field's value is non-empty, and changes nothing otherwise.
TabCompletesIffFilled ==
  [][NavTab =>
       /\ EveryFieldNonEmpty <=> (res' = "Ok(true)" /\ pc' = "teardown")
       /\ ~EveryFieldNonEmpty =>
            UNCHANGED <<app, pc, res, ret, readme, generated, writes>>]_vars
\* C4: Tab has ended the loop with the completion signal.
CompletedByTab == res = "Ok(true)" /\ pc = "teardown" /\ EveryFieldNonEmpty

\* C5: after Escape the field values are those of the moment the field was
\* entered, whatever was typed or deleted since, and the mode is Navigation.
CancelRestores ==
  (last.key = "Esc" /\ last.ended.open) =>
    /\ fields = last.ended.snap
    /\ input_mode = "Navigation"
\* C5: a filled field was entered, characters were typed, then Escape.
CancelledAfterTyping ==
  /\ last.key = "Esc"
  /\ last.ended.open /\ last.ended.clean
  /\ last.ended.typed # EmptyText
  /\ last.ended.snap[last.from] # EmptyText

\* C6: Down at N-1 and Up at 0 leave the index; elsewhere Down adds 1 and Up
\* subtracts 1; neither changes the mode, the buffer or a field value.
MovesAreClamped ==
  [][/\ NavDown => current_field' =
                     (IF current_field = LastIndex THEN LastIndex ELSE current_field + 1)
     /\ NavUp => current_field' = (IF current_field = 0 THEN 0 ELSE current_field - 1)
     /\ (NavDown \/ NavUp) => UNCHANGED <<input_mode, input, fields>>]_vars
\* C6: Down was pressed on the last field and the index stayed.
DownAtLastField ==
  last.key = "Down" /\ last.from = LastIndex /\ current_field = LastIndex

\* C7, as claimed: once main is over, the document was written if and only if
\* the loop ended with the completion signal.
WrittenIffCompleted == pc = "done" => (writes > 0 <=> res = "Ok(true)")
\* C7, amended: without the completion signal nothing is generated or written;
\* after it, the document is written if and only if main returns Ok (the
\* teardown and the write succeeded).
WrittenOnlyWhenCompleted ==
  /\ res # "Ok(true)" => (generated = 0 /\ writes = 0 /\ readme = << >>)
  /\ (pc = "done" /\ res = "Ok(true)") => (writes > 0 <=> ret = "Ok")
\* C7: the session ended by the quit key and main is over.
QuitAndDone == pc = "done" /\ res = "Ok(false)" /\ last.key = "q"

\* C8, as claimed: a session that ended with the completion signal generates
\* the document exactly once.
GeneratedOncePerCompletion == (pc = "done" /\ res = "Ok(true)") => generated = 1
\* C8, amended: the document is generated at most once, only after the
\* completion signal and with every field non-empty, and exactly once when the
\* teardown after that signal succeeds.
GeneratedOnceAfterTeardown ==
  /\ generated <= 1
  /\ generated > 0 => (res = "Ok(true)" /\ EveryFieldNonEmpty)
  /\ (pc = "done" /\ res = "Ok(true)" /\ ret # "Err") => generated = 1
\* C8: the document was generated and written.
GeneratedAndWritten == pc = "done" /\ generated = 1 /\ writes = 1 /\ ret = "Ok"

\* The multi-valued fields with the position of their list among the
\* arguments of the preview, their placeholder and their list style.
MultiFields == {4, 5, 6, 7, 11, 12}
ListArg(m) ==
  CASE m = 4 -> 9 [] m = 5 -> 10 [] m = 6 -> 11 [] m = 7 -> 12 [] m = 11 -> 15 [] m = 12 -> 18
ListPlaceholder(m) ==
  CASE m = 4 -> "- <Features of your project>" [] m = 5 -> "- <Technologies used>"
    [] m = 6 -> "- <Prerequisites>" [] m = 7 -> "1. <Installation steps>"
    [] m = 11 -> "1. <Test instructions>" [] m = 12 -> "- <Project authors>"
IsNumbered(m) == m \in {7, 11}
\* The list of field m in the preview of the current form.
RenderedList(m) == preview_args(fields, selected_license)[ListArg(m)]
\* The number of semicolons of a text.
Semicolons(s) == Cardinality({k \in 1 .. Len(s) : s[k] = ";"})
\* The k-th piece of a text: what lies between its (k-1)-th and k-th semicolon.
Piece(s, k) ==
  LET at == {p \in 1 .. Len(s) : s[p] = ";"}
      nth(n) == CHOOSE p \in at : Cardinality({q \in at : q < p}) = n - 1
      from == IF k = 1 THEN 1 ELSE nth(k - 1) + 1
      to == IF k = Cardinality(at) + 1 THEN Len(s) ELSE nth(k) - 1
  IN  SubSeq(s, from, to)
\* A list of k trimmed pieces in one of the two styles.
ListOfPieces(s, isNumbered) ==
  join([k \in 1 .. (Semicolons(s) + 1) |->
          (IF isNumbered THEN Decimal(k) \o << ".", " " >> ELSE << "-", " " >>)
            \o trim(Piece(s, k))],
       NL)

\* C9: the preview shows the placeholder of a multi-valued field if and only
\* if the field's raw text is empty.
PlaceholderIffRawEmpty ==
  preview # << >> =>
    \A m \in MultiFields :
      (RenderedList(m) = << ListPlaceholder(m) >>) <=> (fields[m] = EmptyText)

\* C10: a non-empty raw text with k-1 semicolons is rendered as k trimmed
\* items in order, bulleted or numbered from 1; "a; b ;c" gives a, b, c.
SemicolonsGiveItems ==
  preview # << >> =>
    \A m \in MultiFields :
      fields[m] # EmptyText => RenderedList(m) = ListOfPieces(fields[m], IsNumbered(m))

\* The scalar fields with the positions of their value among the arguments
\* of the preview.
ScalarFields == {0, 1, 2, 3, 8, 9, 10}
ScalarArgs(s) ==
  CASE s = 0 -> {4, 5, 6} [] s = 1 -> {1} [] s = 2 -> {2} [] s = 3 -> {8}
    [] s = 8 -> {13} [] s = 9 -> {14} [] s = 10 -> {16}

\* C11: where a scalar field is empty the preview holds a placeholder text, not
\* the empty value; in particular for the repository name with every other
\* field filled.
ScalarPlaceholders ==
  preview # << >> =>
    \A s \in ScalarFields :
      fields[s] = EmptyText =>
        \A k \in ScalarArgs(s) : preview_args(fields, selected_license)[k] # EmptyText

\* The opening markup of the four repository badges.
StarsOpen == "[![Stars](https://img.shields.io/github/stars/"
ForksOpen == "[![Forks](https://img.shields.io/github/forks/"
IssuesOpen == "[![Issues](https://img.shields.io/github/issues/"
LicenseOpen == "[![License](https://img.shields.io/github/license/"
BadgeOpenings == {StarsOpen, ForksOpen, IssuesOpen, LicenseOpen}
\* The four badges of repository r, one per line, r in both places of each.
FourBadges(r) ==
  << StarsOpen >> \o r \o << "?style=flat-square)](https://github.com/" >> \o r
    \o << "/stargazers)", "\n", ForksOpen >> \o r
    \o << "?style=flat-square)](https://github.com/" >> \o r
    \o << "/network/members)", "\n", IssuesOpen >> \o r
    \o << "?style=flat-square)](https://github.com/" >> \o r
    \o << "/issues)", "\n", LicenseOpen >> \o r
    \o << "?style=flat-square)](https://github.com/" >> \o r
    \o << "/blob/main/LICENSE)" >>
Occurs(piece, doc) == \E k \in 1 .. Len(doc) : doc[k] = piece

\* C12: the preview contains the four repository badges, the repository name
\* in each, if and only if the repository name is non-empty; when it is empty
\* the badge section is empty and no badge markup occurs in the preview.
BadgesIffRepoName ==
  preview # << >> =>
    LET section == preview_args(fields, selected_license)[3] IN
      /\ fields[0] # EmptyText => section = FourBadges(fields[0])
      /\ fields[0] = EmptyText => section = << >>
      /\ \A b \in BadgeOpenings : Occurs(b, preview) <=> fields[0] # EmptyText
\* C12: a preview was rendered for a repository name of several characters.
PreviewWithRepoName == preview # << >> /\ Len(fields[0]) > 1

\* C13: while a field is empty the right-hand panel shows the preview of the
\* form, and the preview is what it shows only while a field is empty.
PanelShowsPreviewWhileFilling ==
  pc = "loop" =>
    LET panel == ui_right_panel(fields, current_field, selected_license)
        shown == panel.text = generate_preview(fields, selected_license)
    IN  /\ ~EveryFieldNonEmpty => shown
        /\ shown => ~EveryFieldNonEmpty

\* The latest Enter of Editing mode ended a session in which nothing was
\* typed or deleted (known for the sessions that track their typing).
CommittedUntouched ==
  /\ last.key = "Enter"
  /\ last.ended.open /\ last.ended.tracked /\ last.ended.clean
  /\ last.ended.typed = EmptyText

\* C14: a field value changes only by Enter in Editing mode, and then only the
\* value at current_field; every Navigation key and Char, Backspace, Esc and
\* unhandled keys of Editing mode leave the 13 values; the number of fields
\* never changes.
FieldsChangeOnlyOnCommit ==
  [][/\ fields' # fields =>
          /\ EditEnter
          /\ ~(NavQuit \/ NavDown \/ NavUp \/ NavEnter \/ NavTab \/ NavOther
                 \/ EditChar \/ EditBackspace \/ EditEsc \/ EditOther)
          /\ \A j \in FieldIdx \ {current_field} : fields'[j] = fields[j]
     /\ DOMAIN fields' = FieldIdx]_vars
\* C14: a commit changed the value of the field it was pressed on.
ChangedByCommit ==
  /\ last.key = "Enter" /\ last.ended.open
  /\ fields[last.from] # last.ended.snap[last.from]

ConfirmAdvancesByOne ==
  [][EditEnter =>
       /\ fields'[current_field] = input
       /\ IF current_field < LastIndex
            THEN current_field' = current_field + 1 /\ input_mode' = "Editing"
            ELSE current_field' = LastIndex /\ input_mode' = "Navigation"]_vars
\* C16: a typed value was committed before the last field and the editor
\* moved on to the next field.
AdvancedAfterCommit ==
  /\ last.key = "Enter" /\ last.from < LastIndex
  /\ fields[last.from] # EmptyText
  /\ current_field = last.from + 1 /\ input_mode = "Editing"

\* C17: right after Enter in Navigation mode and after the auto-advance of
\* Enter in Editing mode the buffer is the active field's value; a confirm
\* without typing in between leaves every value as it was.
BufferPrefilledOnEntry ==
  /\ [][(NavEnter \/ (EditEnter /\ current_field < LastIndex)) =>
          (input_mode' = "Editing" /\ input' = fields'[current_field'])]_vars
  /\ [](CommittedUntouched => fields = last.ended.snap)
\* C17: the editor auto-advanced onto a field that held a value and Enter was
\* pressed again without typing.
ReconfirmedUntouched ==
  /\ CommittedUntouched
  /\ ~last.ended.nav
  /\ last.ended.snap[last.from] # EmptyText

\* The confirms still needed to return to Navigation mode.
ConfirmsLeft == IF input_mode = "Editing" THEN NumFields - current_field ELSE 0

\* C18: with confirms and printable characters only, the first confirm opens
\* field 0 with N confirms left, every further confirm takes one off and typing
\* takes none, the fields from the active one on are still untouched, and the
\* run ends in Navigation with current_field = N-1.
WizardCommitsInOrder ==
  /\ [](/\ input_mode = "Editing" =>
             \A j \in FieldIdx : j >= current_field => fields[j] = EmptyText
        /\ (input_mode = "Navigation" /\ last.key = "Enter") =>
             (current_field = LastIndex /\ last.from = LastIndex)
        /\ (input_mode = "Navigation" /\ last.key # "Enter") =>
             (current_field = 0 /\ \A j \in FieldIdx : fields[j] = EmptyText))
  /\ [][/\ WizardStart => ConfirmsLeft' = NumFields
        /\ EditEnter => ConfirmsLeft' = ConfirmsLeft - 1
        /\ EditChar => ConfirmsLeft' = ConfirmsLeft]_vars
\* C18: the wizard ran to its end with a value typed into every field.
WizardDone ==
  /\ input_mode = "Navigation" /\ current_field = LastIndex
  /\ last.key = "Enter" /\ last.from = LastIndex
  /\ EveryFieldNonEmpty

\* C19: after a failing draw or read main returns the error and nothing is
\* generated or written.
LoopFailureIsReturned ==
  (pc = "done" /\ res = "Err") => (ret = "Err" /\ generated = 0 /\ writes = 0)

\* C20: no key of Editing mode ends the loop: q is appended like any character,
\* unhandled keys such as Tab change nothing, and a loop that ended with
\* Ok(false) or Ok(true) ended in Navigation mode.
EndsOnlyFromNavigation ==
  /\ []((input_mode = "Editing" /\ pc # "loop") => res = "Err")
  /\ [][/\ (pc' # "loop" \/ res' # "none") =>
             ~(EditEnter \/ EditChar \/ EditBackspace \/ EditEsc \/ EditOther)
        /\ (input_mode = "Editing" /\ EditChar) =>
             (Len(input') = Len(input) + 1 /\ SubSeq(input', 1, Len(input)) = input)
        /\ (input_mode = "Editing" /\ app' # app) => ~EditOther]_vars
\* C20: q was typed in Editing mode and the loop goes on.
QTypedInEditing ==
  /\ pc = "loop" /\ input_mode = "Editing"
  /\ input # EmptyText /\ input[Len(input)] = "q"

\* The license line of a document names license l.
LicenseLineNames(doc, l) ==
  \E k \in 1 .. (Len(doc) - 1) : doc[k] = LitLicense[1] /\ doc[k + 1] = l

\* C21: selected_license is 0 in every reachable state, and the license line of
\* the preview the panel shows and of the written document names
\* license_options[0], "MIT License".
LicenseIsAlwaysFirst ==
  /\ selected_license = 0
  /\ selected_license \in 0 .. (Len(license_options) - 1)
  /\ (pc = "loop" /\ EveryFieldNonEmpty) =>
       LicenseLineNames(ui_right_panel(fields, current_field, selected_license).text,
                        "MIT License")
  /\ writes > 0 => LicenseLineNames(readme, "MIT License")
\* C21: the session was completed and the document written, with the license
\* line of license_options[0].
WrittenWithFirstLicense ==
  /\ writes = 1 /\ selected_license = 0
  /\ LicenseLineNames(readme, license_options[1])

\* C22: in Navigation mode the edit buffer is empty.
BufferEmptyInNavigation == input_mode = "Navigation" => input = EmptyText
\* C22: a typed value was committed on the last field, which drained the
\* buffer and returned to Navigation mode.
DrainedAtLastField ==
  /\ input_mode = "Navigation" /\ input = EmptyText
  /\ last.key = "Enter" /\ last.from = LastIndex
  /\ fields[LastIndex] # EmptyText
====
